---- MODULE Spec2Model ----
(***************************************************************************)
(* MelX Academic: the dashboard's UI state (App component), its course     *)
(* list editor (CourseList), the grade scales (constants) and the three    *)
(* remote operations of geminiService, as one state machine.               *)
(*                                                                         *)
(* Numbers.  Grade points are kept in tenths (4.0 is 40) and every GPA in  *)
(* hundredths (3.80 is 380), so that the arithmetic is exact integer       *)
(* arithmetic.  Credits are integers.                                      *)
(***************************************************************************)
EXTENDS Integers, Sequences, FiniteSets, Bags, TLC

(***************************************************************************)
(* Bounds of the model.                                                    *)
(***************************************************************************)
\* user events of one run; every user event advances the clock Date.now()
MaxNow == 5
\* semesters in the list
MaxSemesters == 2
\* courses of one semester
MaxCourses == 2
\* asynchronous handlers in flight at once
MaxInFlight == 2
\* courses of one semester list drawn by CalcInit
CalcMaxCourses == 2

(***************************************************************************)
(* types.ts                                                                *)
(***************************************************************************)
Standard4 == "4.0 Scale"
Standard5 == "5.0 Scale"
CalculationMode == {Standard4, Standard5}
ProcessingStatus == {"idle", "scanning", "thinking", "searching", "complete", "error"}

\* null of `string | null`
Null == "null"
\* `AIAnalysisResult | null` and `Course | null`: a sequence of at most one value
None == << >>
Some(x) == << x >>

(***************************************************************************)
(* constants.ts                                                            *)
(***************************************************************************)
SCALE_4_0 ==
  << [grade |-> "A",  point |-> 40], [grade |-> "A-", point |-> 37],
     [grade |-> "B+", point |-> 33], [grade |-> "B",  point |-> 30],
     [grade |-> "B-", point |-> 27], [grade |-> "C+", point |-> 23],
     [grade |-> "C",  point |-> 20], [grade |-> "C-", point |-> 17],
     [grade |-> "D+", point |-> 13], [grade |-> "D",  point |-> 10],
     [grade |-> "F",  point |-> 0] >>

SCALE_5_0 ==
  << [grade |-> "A", point |-> 50], [grade |-> "B", point |-> 40],
     [grade |-> "C", point |-> 30], [grade |-> "D", point |-> 20],
     [grade |-> "E", point |-> 10], [grade |-> "F", point |-> 0] >>

\* Array.prototype.find: the first element that satisfies the test
FindGrade(scale, grade) ==
  LET hits == {i \in DOMAIN scale : scale[i].grade = grade}
  IN  IF hits = {} THEN 0
      ELSE CHOOSE i \in hits : \A j \in hits : i <= j

getPoint_OtherTable(grade, m) ==
  LET scale == IF m = Standard5 THEN SCALE_4_0 ELSE SCALE_5_0
      item  == FindGrade(scale, grade)
  IN  IF item # 0 THEN scale[item].point ELSE 0

getPoint(grade, m) ==
  LET scale == IF m = Standard5 THEN SCALE_5_0 ELSE SCALE_4_0
      item  == FindGrade(scale, grade)
  IN  IF item # 0 THEN scale[item].point ELSE 0

\* activeScale of App: the scale handed to CourseList
activeScale(m) == IF m = Standard5 THEN SCALE_5_0 ELSE SCALE_4_0

(***************************************************************************)
(* Number.prototype.toFixed(2) followed by parseFloat, of the quotient     *)
(* totalPoints / totalCredits.  p10 is totalPoints in tenths, the result   *)
(* is in hundredths: the integer nearest to 100 * (p10 / 10) / credits.    *)
(* toFixed formats the magnitude and puts the sign in front.  At an exact  *)
(* decimal tie (x.xx5) the code's result depends on the binary rounding    *)
(* error of the double it holds; the model computes exactly and takes the  *)
(* larger magnitude, which is toFixed's choice when the double is the tie. *)
(***************************************************************************)
Abs(x) == IF x < 0 THEN -x ELSE x

ToFixed2(p10, credits) ==
  LET n == 10 * Abs(p10)
      d == Abs(credits)
      q == (2 * n + d) \div (2 * d)
  IN  IF (p10 < 0) = (credits < 0) THEN q ELSE -q

\* Array.prototype.reduce((sum, x) => sum + f(x), 0)
RECURSIVE SumSeq(_)
SumSeq(s) == IF s = << >> THEN 0 ELSE s[1] + SumSeq(Tail(s))

(***************************************************************************)
(* App: calculateSemesterGPA.  The function closes over `mode` of the      *)
(* render that created it, here the parameter m.                           *)
(***************************************************************************)
calculateSemesterGPA_Unweighted(courses, m) ==
  IF Len(courses) = 0 THEN 0
  ELSE LET totalPoints  == SumSeq([i \in DOMAIN courses |->
                                     getPoint(courses[i].grade, m)])
           totalCredits == Len(courses)
       IN  ToFixed2(totalPoints, totalCredits)

calculateSemesterGPA(courses, m) ==
  IF Len(courses) = 0 THEN 0
  ELSE LET totalPoints  == SumSeq([i \in DOMAIN courses |->
                                     getPoint(courses[i].grade, m) * courses[i].credits])
           totalCredits == SumSeq([i \in DOMAIN courses |-> courses[i].credits])
       IN  IF totalCredits = 0 THEN 0 ELSE ToFixed2(totalPoints, totalCredits)

(***************************************************************************)
(* App: cgpa (useMemo over semesters and mode): two nested forEach loops   *)
(* that accumulate totalPoints and totalCredits.                           *)
(***************************************************************************)
RECURSIVE CoursePoints(_, _)
CoursePoints(courses, m) ==
  IF courses = << >> THEN 0
  ELSE getPoint(courses[1].grade, m) * courses[1].credits
       + CoursePoints(Tail(courses), m)

RECURSIVE CourseCredits(_)
CourseCredits(courses) ==
  IF courses = << >> THEN 0
  ELSE courses[1].credits + CourseCredits(Tail(courses))

RECURSIVE TotalPoints(_, _)
TotalPoints(sems, m) ==
  IF sems = << >> THEN 0
  ELSE CoursePoints(sems[1].courses, m) + TotalPoints(Tail(sems), m)

RECURSIVE TotalCredits(_)
TotalCredits(sems) ==
  IF sems = << >> THEN 0
  ELSE CourseCredits(sems[1].courses) + TotalCredits(Tail(sems))

RECURSIVE CourseCount(_)
CourseCount(sems) ==
  IF sems = << >> THEN 0 ELSE Len(sems[1].courses) + CourseCount(Tail(sems))

Cgpa_PerCourse(sems, m) ==
  LET totalPoints  == TotalPoints(sems, m)
      totalCredits == CourseCount(sems)
  IN  IF totalCredits = 0 THEN 0 ELSE ToFixed2(totalPoints, totalCredits)

Cgpa(sems, m) ==
  LET totalPoints  == TotalPoints(sems, m)
      totalCredits == TotalCredits(sems)
  IN  IF totalCredits = 0 THEN 0 ELSE ToFixed2(totalPoints, totalCredits)

(***************************************************************************)
(* State.  The useState cells of App, the environment the services read,   *)
(* and the asynchronous handler invocations that have not finished yet.    *)
(***************************************************************************)
VARIABLES
  mode,                 \* CalculationMode
  semesters,            \* Semester[]: [id, name, courses, gpa]
  activeTab,            \* 'calc' | 'strategy'
  targetCGPA,           \* number, in hundredths
  analysis,             \* AIAnalysisResult | null
  status,               \* ProcessingStatus
  errorMessage,         \* string | null
  resourceModalOpen,    \* boolean
  activeResourceCourse, \* Course | null
  foundResources,       \* StudyResource[]
  apiKey,               \* whether process.env.API_KEY is set
  now,                  \* Date.now(), counted in user events
  ops                   \* bag of handler invocations in flight

vars == << mode, semesters, activeTab, targetCGPA, analysis, status,
           errorMessage, resourceModalOpen, activeResourceCourse,
           foundResources, apiKey, now, ops >>

uiVars == << activeTab, targetCGPA, analysis, status, errorMessage,
             resourceModalOpen, activeResourceCourse, foundResources >>

(***************************************************************************)
(* Identifiers built from Date.now(): `sem-${t}`, `sem-import-${t}`,       *)
(* `new-${t}`, `parsed-${t}-${index}`, kept as tuples of their parts.      *)
(* The literal 'sem-1' of the initial state is no `sem-${t}`: Date.now()   *)
(* is never 1.  The clock is counted in events: two events that build an   *)
(* identifier never fall in the same millisecond.                          *)
(***************************************************************************)
InitialSemId      == << "sem-1" >>
SemId(t)          == << "sem", t >>
SemImportId(t)    == << "sem-import", t >>
NewCourseId(t)    == << "new", t >>
ParsedCourseId(t, index) == << "parsed", t, index >>

(***************************************************************************)
(* What the user types or picks.                                           *)
(***************************************************************************)
TypedCodes    == {"CS101"}
TypedTitles   == {"Algebra"}
TypedNames    == {"Fall"}
\* texts of the credits field (type="number"): empty, negative, positive
TypedCredits  == {"", "-1", "1"}
\* the options of the grade dropdown the user picks among
GradeChoices  == {"A", "B+", "E", "F"}

\* parseInt(text): [nan, n]
ParseInt(text) ==
  CASE text = "-1" -> [nan |-> FALSE, n |-> -1]
    [] text = "0"  -> [nan |-> FALSE, n |-> 0]
    [] text = "1"  -> [nan |-> FALSE, n |-> 1]
    [] OTHER       -> [nan |-> TRUE,  n |-> 0]

\* parseInt(e.target.value) || 0   (CourseList, credits input)
ParseCredits(text) ==
  LET r == ParseInt(text) IN IF r.nan \/ r.n = 0 THEN 0 ELSE r.n

\* String.prototype.length
StrLen(s) == Len(s)

Tick == now < MaxNow /\ now' = now + 1

\* The Resource Scout modal is a fixed full-screen overlay above the page:
\* while it is open the pointer reaches only its close button.
PageReachable == ~resourceModalOpen

(***************************************************************************)
(* Initial state: the useState initial values.                             *)
(***************************************************************************)
Init ==
  /\ mode = Standard4
  /\ semesters = << [id |-> InitialSemId, name |-> "Semester 1",
                     courses |-> << >>, gpa |-> 0] >>
  /\ activeTab = "calc"
  /\ targetCGPA = 380
  /\ analysis = None
  /\ status = "idle"
  /\ errorMessage = Null
  /\ resourceModalOpen = FALSE
  /\ activeResourceCourse = None
  /\ foundResources = << >>
  /\ apiKey \in BOOLEAN
  /\ now = 0
  /\ ops = EmptyBag

(***************************************************************************)
(* App: the scale buttons and the tabs.                                    *)
(***************************************************************************)
SetMode_ResetGrades(m) ==
  /\ PageReachable
  /\ Tick
  /\ mode' = m
  /\ semesters' = [i \in DOMAIN semesters |->
       [semesters[i] EXCEPT !.courses = [j \in DOMAIN semesters[i].courses |->
          [semesters[i].courses[j] EXCEPT !.grade =
             IF FindGrade(activeScale(m), @) = 0 THEN activeScale(m)[1].grade ELSE @]]]]
  /\ UNCHANGED << uiVars, apiKey, ops >>

SetMode(m) ==
  /\ PageReachable
  /\ Tick
  /\ mode' = m
  /\ UNCHANGED << semesters, uiVars, apiKey, ops >>

SetActiveTab(t) ==
  /\ PageReachable
  /\ Tick
  /\ activeTab' = t
  /\ UNCHANGED << mode, semesters, targetCGPA, analysis, status, errorMessage,
                  resourceModalOpen, activeResourceCourse, foundResources,
                  apiKey, ops >>

(***************************************************************************)
(* App: semesters.                                                         *)
(***************************************************************************)
handleUpdateCourses_KeepGpa(semId, updatedCourses) ==
  semesters' = [i \in DOMAIN semesters |->
     IF semesters[i].id = semId
     THEN [semesters[i] EXCEPT !.courses = updatedCourses]
     ELSE semesters[i]]

\* setSemesters(prev => prev.map(sem => sem.id === semId ? {...} : sem)),
\* calculateSemesterGPA being the one of the render the event came from
handleUpdateCourses(semId, updatedCourses) ==
  semesters' = [i \in DOMAIN semesters |->
     IF semesters[i].id = semId
     THEN [semesters[i] EXCEPT !.courses = updatedCourses,
                               !.gpa = calculateSemesterGPA(updatedCourses, mode)]
     ELSE semesters[i]]

addSemester ==
  /\ PageReachable /\ activeTab = "calc"
  /\ Len(semesters) < MaxSemesters
  /\ Tick
  /\ semesters' = Append(semesters,
       [id |-> SemId(now'), name |-> "Semester " \o ToString(Len(semesters) + 1),
        courses |-> << >>, gpa |-> 0])
  /\ UNCHANGED << mode, uiVars, apiKey, ops >>

\* Array.prototype.filter
RECURSIVE FilterOutId(_, _)
FilterOutId(s, id) ==
  IF s = << >> THEN << >>
  ELSE IF s[1].id = id THEN FilterOutId(Tail(s), id)
       ELSE << s[1] >> \o FilterOutId(Tail(s), id)

removeSemester(id) ==
  /\ PageReachable /\ activeTab = "calc"
  /\ \E i \in DOMAIN semesters : semesters[i].id = id
  /\ Tick
  /\ semesters' = FilterOutId(semesters, id)
  /\ UNCHANGED << mode, uiVars, apiKey, ops >>

\* the semester name input
renameSemester(id, val) ==
  /\ PageReachable /\ activeTab = "calc"
  /\ \E i \in DOMAIN semesters : semesters[i].id = id
  /\ Tick
  /\ semesters' = [i \in DOMAIN semesters |->
       IF semesters[i].id = id THEN [semesters[i] EXCEPT !.name = val]
       ELSE semesters[i]]
  /\ UNCHANGED << mode, uiVars, apiKey, ops >>

(***************************************************************************)
(* CourseList, rendered for semester i with courses = semesters[i].courses *)
(* and scale = activeScale.                                                *)
(***************************************************************************)
handleAddCourse(i) ==
  /\ PageReachable /\ activeTab = "calc"
  /\ i \in DOMAIN semesters
  /\ Len(semesters[i].courses) < MaxCourses
  /\ Tick
  /\ LET newCourse == [id |-> NewCourseId(now'), code |-> "", title |-> "",
                       credits |-> 3, grade |-> activeScale(mode)[1].grade]
     IN  handleUpdateCourses(semesters[i].id, Append(semesters[i].courses, newCourse))
  /\ UNCHANGED << mode, uiVars, apiKey, ops >>

ChangeField_EveryCourse(courses, id, field, value) ==
  [j \in DOMAIN courses |-> [courses[j] EXCEPT ![field] = value]]

\* courses.map(c => c.id === id ? { ...c, [field]: value } : c)
ChangeField(courses, id, field, value) ==
  [j \in DOMAIN courses |->
     IF courses[j].id = id THEN [courses[j] EXCEPT ![field] = value]
     ELSE courses[j]]

handleChange(i, id, field, value) ==
  /\ PageReachable /\ activeTab = "calc"
  /\ i \in DOMAIN semesters
  /\ \E j \in DOMAIN semesters[i].courses : semesters[i].courses[j].id = id
  /\ Tick
  /\ handleUpdateCourses(semesters[i].id,
                         ChangeField(semesters[i].courses, id, field, value))
  /\ UNCHANGED << mode, uiVars, apiKey, ops >>

handleRemove(i, id) ==
  /\ PageReachable /\ activeTab = "calc"
  /\ i \in DOMAIN semesters
  /\ \E j \in DOMAIN semesters[i].courses : semesters[i].courses[j].id = id
  /\ Tick
  /\ handleUpdateCourses(semesters[i].id, FilterOutId(semesters[i].courses, id))
  /\ UNCHANGED << mode, uiVars, apiKey, ops >>

\* the grades offered by the dropdown of the current render
OfferedGrades == {activeScale(mode)[k].grade : k \in DOMAIN activeScale(mode)}

CourseIds(i) == {semesters[i].courses[j].id : j \in DOMAIN semesters[i].courses}

EditCode    == \E i \in DOMAIN semesters : \E id \in CourseIds(i) :
                 \E v \in TypedCodes : handleChange(i, id, "code", v)
EditTitle   == \E i \in DOMAIN semesters : \E id \in CourseIds(i) :
                 \E v \in TypedTitles : handleChange(i, id, "title", v)
EditCredits == \E i \in DOMAIN semesters : \E id \in CourseIds(i) :
                 \E v \in TypedCredits : handleChange(i, id, "credits", ParseCredits(v))
EditGrade   == \E i \in DOMAIN semesters : \E id \in CourseIds(i) :
                 \E v \in OfferedGrades \cap GradeChoices : handleChange(i, id, "grade", v)
AddCourse    == \E i \in DOMAIN semesters : handleAddCourse(i)
RemoveCourse == \E i \in DOMAIN semesters : \E id \in CourseIds(i) : handleRemove(i, id)
RemoveSemester == \E i \in DOMAIN semesters : removeSemester(semesters[i].id)
RenameSemester == \E i \in DOMAIN semesters : \E v \in TypedNames :
                    renameSemester(semesters[i].id, v)
SwitchMode  == \E m \in CalculationMode : SetMode(m)
SwitchTab   == \E t \in {"calc", "strategy"} : SetActiveTab(t)

(***************************************************************************)
(* Handler invocations in flight.  A scan waits first for the FileReader   *)
(* (phase "reading"), then for the remote call (phase "calling"); m is the *)
(* mode its closure captured, course the argument of handleFindResources,  *)
(* calls the remote calls issued on its behalf.                            *)
(***************************************************************************)
NoMode == "-"
Op(kind, phase, m, course, calls) ==
  [kind |-> kind, phase |-> phase, m |-> m, course |-> course, calls |-> calls]

InFlight(kind, phase) ==
  {op \in BagToSet(ops) : op.kind = kind /\ op.phase = phase}

Start(op)  == ops' = ops (+) SetToBag({op})
Finish(op) == ops' = ops (-) SetToBag({op})
Replace(op, op2) == ops' = (ops (-) SetToBag({op})) (+) SetToBag({op2})
CanStart == BagCardinality(ops) < MaxInFlight

(***************************************************************************)
(* What the remote service answers: the call rejects (network failure),    *)
(* or resolves with a response the service function then reads.            *)
(***************************************************************************)
\* raw course objects of a transcript response; an absent property is an
\* absent field
RawA == [code |-> "MATH1", title |-> "Calculus", credits |-> 2, grade |-> "A-"]
RawB == [code |-> "", credits |-> 0, grade |-> "E"]
RawC == [code |-> "PHY1", title |-> "", credits |-> -2, grade |-> ""]
ScanArrays == { << >>, << RawA >>, << RawB, RawC >> }
ScanResponses ==
  {[kind |-> k, items |-> << >>] : k \in {"networkError", "emptyText", "badJson", "notArray"}}
  \cup {[kind |-> "array", items |-> a] : a \in ScanArrays}

\* c.prop || dflt, for a string property
StrOr(c, prop, dflt) ==
  IF prop \in DOMAIN c /\ c[prop] # "" THEN c[prop] ELSE dflt
\* c.prop || dflt, for a number property
NumOr(c, prop, dflt) ==
  IF prop \in DOMAIN c /\ c[prop] # 0 THEN c[prop] ELSE dflt

parseTranscriptImage_NoDefaults(resp, t) ==
  CASE resp.kind = "emptyText" -> [threw |-> FALSE, courses |-> << >>]
    [] resp.kind = "array" ->
         [threw |-> FALSE,
          courses |-> [index \in DOMAIN resp.items |->
             [id      |-> ParsedCourseId(t, index - 1),
              code    |-> StrOr(resp.items[index], "code", ""),
              title   |-> StrOr(resp.items[index], "title", ""),
              credits |-> NumOr(resp.items[index], "credits", 0),
              grade   |-> StrOr(resp.items[index], "grade", "")]]]
    [] OTHER -> [threw |-> TRUE, courses |-> << >>]

\* parseTranscriptImage after getAiClient(): [threw, courses]
parseTranscriptImage(resp, t) ==
  CASE resp.kind = "emptyText" -> [threw |-> FALSE, courses |-> << >>]
    [] resp.kind = "array" ->
         [threw |-> FALSE,
          courses |-> [index \in DOMAIN resp.items |->
             [id      |-> ParsedCourseId(t, index - 1),
              code    |-> StrOr(resp.items[index], "code", "UNKNOWN"),
              title   |-> StrOr(resp.items[index], "title", "Parsed Course"),
              credits |-> NumOr(resp.items[index], "credits", 3),
              grade   |-> StrOr(resp.items[index], "grade", "C")]]]
    [] OTHER -> [threw |-> TRUE, courses |-> << >>]

\* AIAnalysisResult
FallbackAnalysis ==
  [summary |-> "Could not generate advanced strategy at this time.",
   recommendations |-> << "Ensure your API Key is valid." >>,
   projectedGPA |-> "N/A", sentiment |-> "neutral", strategicPlan |-> << >>]
AiAnalysis ==
  [summary |-> "On track.", recommendations |-> << "Keep going." >>,
   projectedGPA |-> "3.90", sentiment |-> "positive",
   strategicPlan |-> << [step |-> "Next Semester", details |-> "Lighter electives."] >>]
StrategyResponses ==
  {[kind |-> k, result |-> FallbackAnalysis] : k \in {"networkError", "emptyText", "badJson"}}
  \cup {[kind |-> "json", result |-> AiAnalysis]}

generateAcademicStrategy_NoFallback(resp) == AiAnalysis

\* generateAcademicStrategy after getAiClient(): the try block and its catch
generateAcademicStrategy(resp) ==
  IF resp.kind = "json" THEN resp.result ELSE FallbackAnalysis

\* grounding chunks of a search response
ChunkMit  == [web |-> [uri |-> "https://www.mit.edu/a", title |-> "MIT notes"]]
ChunkOcw  == [web |-> [uri |-> "https://ocw.mit.edu/b", title |-> "OCW"]]
ChunkBad  == [web |-> [uri |-> "not a url", title |-> "Broken"]]
ChunkNoTitle == [web |-> [uri |-> "https://ocw.mit.edu/b"]]
ChunkLists == { << >>, << ChunkMit, ChunkNoTitle, ChunkMit, ChunkOcw >>, << ChunkMit, ChunkBad >> }
SearchResponses ==
  {[kind |-> k, chunks |-> << >>] : k \in {"networkError", "noChunks"}}
  \cup {[kind |-> "chunks", chunks |-> c] : c \in ChunkLists}

\* chunks of one search response drawn by SearchInit's specification
MaxChunks == 6
\* the k-th of a family of distinct well-formed URIs, and its host
SiteUri(k)  == "https://site" \o ToString(k) \o ".edu/r"
SiteHost(k) == "site" \o ToString(k) \o ".edu"
Sites == 1..(MaxChunks + 1)

\* new URL(uri): whether it parses, and its hostname
UrlParses(uri) ==
  \/ uri \in {"https://www.mit.edu/a", "https://ocw.mit.edu/b"}
  \/ \E k \in Sites : uri = SiteUri(k)
UrlHostname(uri) ==
  CASE uri = "https://www.mit.edu/a" -> "www.mit.edu"
    [] uri = "https://ocw.mit.edu/b" -> "ocw.mit.edu"
    [] \E k \in Sites : uri = SiteUri(k) ->
         SiteHost(CHOOSE k \in Sites : uri = SiteUri(k))
    [] OTHER -> ""
\* host.replace('www.', '')
StripWww(host) == IF host = "www.mit.edu" THEN "mit.edu" ELSE host

HasWeb(chunk) ==
  /\ "web" \in DOMAIN chunk
  /\ "uri" \in DOMAIN chunk.web /\ chunk.web.uri # ""
  /\ "title" \in DOMAIN chunk.web /\ chunk.web.title # ""

RECURSIVE Resources(_)
Resources(chunks) ==
  IF chunks = << >> THEN << >>
  ELSE IF HasWeb(chunks[1])
       THEN << [title  |-> chunks[1].web.title,
                uri    |-> chunks[1].web.uri,
                source |-> StripWww(UrlHostname(chunks[1].web.uri))] >>
            \o Resources(Tail(chunks))
       ELSE Resources(Tail(chunks))

\* resources.filter((v, i, a) => a.findIndex(t => t.uri === v.uri) === i)
RECURSIVE Dedup(_, _)
Dedup(s, seen) ==
  IF s = << >> THEN << >>
  ELSE IF s[1].uri \in seen THEN Dedup(Tail(s), seen)
       ELSE << s[1] >> \o Dedup(Tail(s), seen \cup {s[1].uri})

TopN == 5
Slice(s, n) == IF Len(s) <= n THEN s ELSE SubSeq(s, 1, n)

findStudyResources_NoDedup(resp) ==
  IF resp.kind # "chunks" THEN << >>
  ELSE IF \E k \in DOMAIN resp.chunks :
            HasWeb(resp.chunks[k]) /\ ~UrlParses(resp.chunks[k].web.uri)
       THEN << >>
       ELSE Slice(Resources(resp.chunks), TopN)

\* findStudyResources after getAiClient(): the try block and its catch
findStudyResources(resp) ==
  IF resp.kind # "chunks" THEN << >>
  ELSE IF \E k \in DOMAIN resp.chunks :
            HasWeb(resp.chunks[k]) /\ ~UrlParses(resp.chunks[k].web.uri)
       THEN << >>
       ELSE Slice(Dedup(Resources(resp.chunks), {}), TopN)

(***************************************************************************)
(* App: handleTranscriptUpload.  The file input's change event starts the  *)
(* FileReader; reader.onloadend runs later and awaits parseTranscriptImage.*)
(* The SCAN TRANSCRIPT button is disabled while status is 'scanning'.      *)
(***************************************************************************)
MsgNoCourses == "Could not detect any courses. Please try a clearer image."
MsgImage     == "Failed to process image. Ensure API Key is set."
MsgStrategy  == "Strategy generation failed."
MsgResources == "Could not find resources."

handleTranscriptUpload ==
  /\ PageReachable /\ activeTab = "calc"
  /\ status # "scanning"
  /\ CanStart
  /\ Tick
  /\ status' = "scanning"
  /\ errorMessage' = Null
  /\ Start(Op("scan", "reading", mode, None, 0))
  /\ UNCHANGED << mode, semesters, activeTab, targetCGPA, analysis,
                  resourceModalOpen, activeResourceCourse, foundResources, apiKey >>

ScanFailed_NoMessage(op) ==
  /\ status' = "error"
  /\ Finish(op)
  /\ UNCHANGED << mode, semesters, activeTab, targetCGPA, analysis, errorMessage,
                  resourceModalOpen, activeResourceCourse, foundResources,
                  apiKey, now >>

\* the catch block of reader.onloadend
ScanFailed(op) ==
  /\ errorMessage' = MsgImage
  /\ status' = "error"
  /\ Finish(op)
  /\ UNCHANGED << mode, semesters, activeTab, targetCGPA, analysis,
                  resourceModalOpen, activeResourceCourse, foundResources,
                  apiKey, now >>

\* reader.onloadend up to the await: reader.result is null when the read
\* failed (split throws), getAiClient throws without a key, and otherwise
\* the remote call is issued
ReaderLoadEnd(op, readOk) ==
  /\ op \in InFlight("scan", "reading")
  /\ IF ~readOk \/ ~apiKey
     THEN ScanFailed(op)
     ELSE /\ Replace(op, [op EXCEPT !.phase = "calling", !.calls = @ + 1])
          /\ UNCHANGED << mode, semesters, uiVars, apiKey, now >>

ScanResponse_AppendsEmpty(op, resp) ==
  /\ op \in InFlight("scan", "calling")
  /\ LET r == parseTranscriptImage(resp, now + 1)
     IN  IF r.threw THEN ScanFailed(op)
         ELSE /\ now' = now + 1
              /\ semesters' = Append(semesters,
                   [id |-> SemImportId(now'), name |-> "Imported Transcript",
                    courses |-> r.courses,
                    gpa |-> calculateSemesterGPA(r.courses, op.m)])
              /\ status' = "complete"
              /\ Finish(op)
              /\ UNCHANGED << mode, activeTab, targetCGPA, analysis, errorMessage,
                              resourceModalOpen, activeResourceCourse,
                              foundResources, apiKey >>

\* reader.onloadend after the await.  calculateSemesterGPA is the one of
\* the render in which the file was chosen: it computes under op.m.
ScanResponse(op, resp) ==
  /\ op \in InFlight("scan", "calling")
  /\ LET r == parseTranscriptImage(resp, now + 1)
     IN  IF r.threw THEN ScanFailed(op)
         ELSE IF Len(r.courses) > 0
         THEN /\ now' = now + 1
              /\ semesters' = Append(semesters,
                   [id |-> SemImportId(now'), name |-> "Imported Transcript",
                    courses |-> r.courses,
                    gpa |-> calculateSemesterGPA(r.courses, op.m)])
              /\ status' = "complete"
              /\ Finish(op)
              /\ UNCHANGED << mode, activeTab, targetCGPA, analysis, errorMessage,
                              resourceModalOpen, activeResourceCourse,
                              foundResources, apiKey >>
         ELSE /\ errorMessage' = MsgNoCourses
              /\ status' = "error"
              /\ Finish(op)
              /\ UNCHANGED << mode, semesters, activeTab, targetCGPA, analysis,
                              resourceModalOpen, activeResourceCourse,
                              foundResources, apiKey, now >>

(***************************************************************************)
(* App: handleGenerateStrategy.  The button is disabled while status is    *)
(* 'thinking'.  Without a key generateAcademicStrategy rejects before any  *)
(* call and the catch block runs in the same task.                         *)
(***************************************************************************)
handleGenerateStrategy_NoCatch ==
  /\ PageReachable /\ activeTab = "strategy"
  /\ status # "thinking"
  /\ Tick
  /\ analysis' = None
  /\ status' = "thinking"
  /\ IF apiKey
     THEN /\ CanStart
          /\ Start(Op("strategy", "calling", NoMode, None, 1))
     ELSE UNCHANGED ops
  /\ UNCHANGED << mode, semesters, activeTab, targetCGPA, errorMessage,
                  resourceModalOpen, activeResourceCourse, foundResources, apiKey >>

handleGenerateStrategy ==
  /\ PageReachable /\ activeTab = "strategy"
  /\ status # "thinking"
  /\ Tick
  /\ analysis' = None
  /\ IF apiKey
     THEN /\ CanStart
          /\ status' = "thinking"
          /\ Start(Op("strategy", "calling", NoMode, None, 1))
          /\ UNCHANGED errorMessage
     ELSE /\ errorMessage' = MsgStrategy
          /\ status' = "error"
          /\ UNCHANGED ops
  /\ UNCHANGED << mode, semesters, activeTab, targetCGPA, resourceModalOpen,
                  activeResourceCourse, foundResources, apiKey >>

StrategyResponse_Retry(op, resp) ==
  /\ op \in InFlight("strategy", "calling")
  /\ IF resp.kind = "networkError" /\ op.calls < 2
     THEN /\ Replace(op, [op EXCEPT !.calls = @ + 1])
          /\ UNCHANGED << analysis, status >>
     ELSE /\ analysis' = Some(generateAcademicStrategy(resp))
          /\ status' = "complete"
          /\ Finish(op)
  /\ UNCHANGED << mode, semesters, activeTab, targetCGPA, errorMessage,
                  resourceModalOpen, activeResourceCourse, foundResources,
                  apiKey, now >>

StrategyResponse(op, resp) ==
  /\ op \in InFlight("strategy", "calling")
  /\ analysis' = Some(generateAcademicStrategy(resp))
  /\ status' = "complete"
  /\ Finish(op)
  /\ UNCHANGED << mode, semesters, activeTab, targetCGPA, errorMessage,
                  resourceModalOpen, activeResourceCourse, foundResources,
                  apiKey, now >>

(***************************************************************************)
(* App: handleFindResources, reached from the search button CourseList     *)
(* renders beside a title longer than 3 characters.                        *)
(***************************************************************************)
handleFindResources(course) ==
  /\ PageReachable /\ activeTab = "calc"
  /\ StrLen(course.title) > 3
  /\ course.title # ""
  /\ Tick
  /\ activeResourceCourse' = Some(course)
  /\ foundResources' = << >>
  /\ resourceModalOpen' = TRUE
  /\ IF apiKey
     THEN /\ CanStart
          /\ status' = "searching"
          /\ Start(Op("search", "calling", NoMode, Some(course), 1))
          /\ UNCHANGED errorMessage
     ELSE /\ errorMessage' = MsgResources
          /\ status' = "error"
          /\ UNCHANGED ops
  /\ UNCHANGED << mode, semesters, activeTab, targetCGPA, analysis, apiKey >>

SearchResponse_KeepsStatus(op, resp) ==
  /\ op \in InFlight("search", "calling")
  /\ foundResources' = findStudyResources(resp)
  /\ Finish(op)
  /\ UNCHANGED << mode, semesters, activeTab, targetCGPA, analysis, status,
                  errorMessage, resourceModalOpen, activeResourceCourse, apiKey, now >>

SearchResponse(op, resp) ==
  /\ op \in InFlight("search", "calling")
  /\ foundResources' = findStudyResources(resp)
  /\ status' = "complete"
  /\ Finish(op)
  /\ UNCHANGED << mode, semesters, activeTab, targetCGPA, analysis, errorMessage,
                  resourceModalOpen, activeResourceCourse, apiKey, now >>

\* the modal's close button
CloseModal ==
  /\ resourceModalOpen
  /\ Tick
  /\ resourceModalOpen' = FALSE
  /\ UNCHANGED << mode, semesters, activeTab, targetCGPA, analysis, status,
                  errorMessage, activeResourceCourse, foundResources, apiKey, ops >>

\* the X of the error banner
DismissError ==
  /\ PageReachable /\ activeTab = "calc"
  /\ errorMessage # Null
  /\ Tick
  /\ errorMessage' = Null
  /\ UNCHANGED << mode, semesters, activeTab, targetCGPA, analysis, status,
                  resourceModalOpen, activeResourceCourse, foundResources,
                  apiKey, ops >>

(***************************************************************************)
(* The derived values of a render.                                         *)
(***************************************************************************)
cgpa == Cgpa(semesters, mode)
ScaleMax == IF mode = Standard5 THEN 500 ELSE 400

\* the target slider: min = cgpa, max = the scale's maximum, step 0.01;
\* the user drags it to one of its ends
SetTargetCGPA(v) ==
  /\ PageReachable /\ activeTab = "strategy"
  /\ cgpa <= v /\ v <= ScaleMax
  /\ Tick
  /\ targetCGPA' = v
  /\ UNCHANGED << mode, semesters, activeTab, analysis, status, errorMessage,
                  resourceModalOpen, activeResourceCourse, foundResources,
                  apiKey, ops >>

AllCourses == UNION {{semesters[i].courses[j] : j \in DOMAIN semesters[i].courses} :
                     i \in DOMAIN semesters}

ChooseFile      == handleTranscriptUpload
LoadEnd         == \E op \in BagToSet(ops) : \E readOk \in BOOLEAN : ReaderLoadEnd(op, readOk)
ScanDone        == \E op \in BagToSet(ops) : \E resp \in ScanResponses : ScanResponse(op, resp)
GenerateStrategy == handleGenerateStrategy
StrategyDone    == \E op \in BagToSet(ops) : \E resp \in StrategyResponses : StrategyResponse(op, resp)
FindResources   == \E course \in AllCourses : handleFindResources(course)
SearchDone      == \E op \in BagToSet(ops) : \E resp \in SearchResponses : SearchResponse(op, resp)
MoveSlider      == \E v \in {cgpa, ScaleMax} : SetTargetCGPA(v)

Next ==
  \/ SwitchMode \/ SwitchTab
  \/ addSemester \/ RemoveSemester \/ RenameSemester
  \/ AddCourse \/ EditCode \/ EditTitle \/ EditCredits \/ EditGrade \/ RemoveCourse
  \/ ChooseFile \/ LoadEnd \/ ScanDone
  \/ GenerateStrategy \/ StrategyDone
  \/ FindResources \/ SearchDone
  \/ CloseModal \/ DismissError \/ MoveSlider

Spec == Init /\ [][Next]_vars

\* The calculator on its own: the scale buttons and the edits of the
\* semester list, no remote operation started.  The run begins one
\* millisecond later than Init's, so that it holds one user event less.
EditInit ==
  /\ mode = Standard4
  /\ semesters = << [id |-> InitialSemId, name |-> "Semester 1",
                     courses |-> << >>, gpa |-> 0] >>
  /\ activeTab = "calc"
  /\ targetCGPA = 380
  /\ analysis = None
  /\ status = "idle"
  /\ errorMessage = Null
  /\ resourceModalOpen = FALSE
  /\ activeResourceCourse = None
  /\ foundResources = << >>
  /\ apiKey = TRUE
  /\ now = 1
  /\ ops = EmptyBag

EditNext ==
  \/ SwitchMode
  \/ addSemester \/ RemoveSemester \/ RenameSemester
  \/ AddCourse \/ EditCode \/ EditTitle \/ EditCredits \/ EditGrade \/ RemoveCourse

EditSpec == EditInit /\ [][EditNext]_vars

\* The browser's event loop runs every callback that is due: a FileReader
\* that was started fires onloadend, and a remote call that was issued
\* resolves or rejects (the assumption the claims about completion make).
Fairness ==
  /\ WF_vars(LoadEnd)
  /\ WF_vars(ScanDone)
  /\ WF_vars(StrategyDone)
  /\ WF_vars(SearchDone)

\* The run under fairness begins one millisecond later than Init's, so that
\* it holds one user event less.
FairInit ==
  /\ mode = Standard4
  /\ semesters = << [id |-> InitialSemId, name |-> "Semester 1",
                     courses |-> << >>, gpa |-> 0] >>
  /\ activeTab = "calc"
  /\ targetCGPA = 380
  /\ analysis = None
  /\ status = "idle"
  /\ errorMessage = Null
  /\ resourceModalOpen = FALSE
  /\ activeResourceCourse = None
  /\ foundResources = << >>
  /\ apiKey \in BOOLEAN
  /\ now = 1
  /\ ops = EmptyBag

FairSpec == FairInit /\ [][Next]_vars /\ Fairness

(***************************************************************************)
(* The calculation on its own: the semester list is drawn from a bounded   *)
(* set of lists and the scale buttons re-evaluate the derived values.      *)
(* Every list drawn is one the program reaches: transcripts imported under *)
(* the initial mode (any grade string, any credits but 0), the credits     *)
(* then edited (0 included), which recomputes the gpa under that mode, and *)
(* 'sem-1' removed.                                                        *)
(***************************************************************************)
CalcGrades  == {SCALE_4_0[k].grade : k \in DOMAIN SCALE_4_0}
               \cup {SCALE_5_0[k].grade : k \in DOMAIN SCALE_5_0} \cup {"X"}
\* the grades of the courses after the first of a list
CalcGradesRest == {"B+", "B", "E", "X"}
CalcCredits == {-1, 0, 1, 3}

CalcCourse(t, index, grade, credits) ==
  [id |-> ParsedCourseId(t, index - 1), code |-> "UNKNOWN",
   title |-> "Parsed Course", credits |-> credits, grade |-> grade]

CalcCourseLists(t) ==
  UNION {{[index \in 1..n |-> CalcCourse(t, index, g[index], c[index])] :
            g \in {h \in [1..n -> CalcGrades] :
                      \A k \in 2..n : h[k] \in CalcGradesRest},
            c \in [1..n -> CalcCredits]} :
         n \in 0..CalcMaxCourses}

CalcSemester(t, courses, m) ==
  [id |-> SemImportId(t), name |-> "Imported Transcript",
   courses |-> courses, gpa |-> calculateSemesterGPA(courses, m)]

\* a second semester, of one course
CalcSecond(m) ==
  {CalcSemester(2, << CalcCourse(2, 1, g, c) >>, m) : g \in {"A", "B+"}, c \in {1, -1}}

CalcInit ==
  /\ mode = Standard4
  /\ \E first \in CalcCourseLists(1) :
       \/ semesters = << CalcSemester(1, first, mode) >>
       \/ \E second \in CalcSecond(mode) :
            semesters = << CalcSemester(1, first, mode), second >>
  /\ activeTab = "calc"
  /\ targetCGPA = 380
  /\ analysis = None
  /\ status = "complete"
  /\ errorMessage = Null
  /\ resourceModalOpen = FALSE
  /\ activeResourceCourse = None
  /\ foundResources = << >>
  /\ apiKey = TRUE
  /\ now = MaxNow - 1
  /\ ops = EmptyBag

CalcNext == SwitchMode

CalcSpec == CalcInit /\ [][CalcNext]_vars

(***************************************************************************)
(* parseTranscriptImage on its own: one scan is waiting for its response   *)
(* (a file was chosen after the scale buttons were used once, and the      *)
(* reader has loaded it), and the response is drawn from the JSON arrays   *)
(* whose elements have each property absent, empty (0 for credits) or set. *)
(***************************************************************************)
\* elements of one response array
ParseMaxItems == 2

\* an object with no property
EmptyObject == [x \in {} |-> x]
\* { [prop]: v } when v is given, {} when it is absent
Property(prop, v) == IF v = None THEN EmptyObject ELSE [x \in {prop} |-> v[1]]

ParseStrings(value) == {None, Some(""), Some(value)}
ParseNumbers == {None, Some(0), Some(4), Some(-2)}

ParseItem(code, title, credits, grade) ==
  Property("code", code) @@ Property("title", title)
    @@ Property("credits", credits) @@ Property("grade", grade)

\* the first element of an array: every combination
ParseItems ==
  {ParseItem(code, title, credits, grade) :
     code \in ParseStrings("BIO2"), title \in ParseStrings("Cells"),
     credits \in ParseNumbers, grade \in ParseStrings("B")}
\* the elements after the first
ParseItemsRest ==
  {ParseItem(None, None, None, None),
   ParseItem(Some(""), Some(""), Some(0), Some("")),
   ParseItem(Some("BIO2"), Some("Cells"), Some(-2), Some("B-"))}

ParseArrays ==
  UNION {{[index \in 1..n |-> IF index = 1 THEN first ELSE rest[index]] :
            first \in ParseItems, rest \in [1..n -> ParseItemsRest]} :
         n \in 1..ParseMaxItems}
ParseResponses ==
  {[kind |-> k, items |-> << >>] : k \in {"networkError", "emptyText", "badJson", "notArray"}}
  \cup {[kind |-> "array", items |-> << >>]}
  \cup {[kind |-> "array", items |-> a] : a \in ParseArrays}

ParseInit ==
  /\ mode \in CalculationMode
  /\ semesters = << [id |-> InitialSemId, name |-> "Semester 1",
                     courses |-> << >>, gpa |-> 0] >>
  /\ activeTab = "calc"
  /\ targetCGPA = 380
  /\ analysis = None
  /\ status = "scanning"
  /\ errorMessage = Null
  /\ resourceModalOpen = FALSE
  /\ activeResourceCourse = None
  /\ foundResources = << >>
  /\ apiKey = TRUE
  /\ now = 2
  /\ ops = SetToBag({Op("scan", "calling", mode, None, 1)})

ParseScanDone ==
  \E op \in BagToSet(ops) : \E resp \in ParseResponses : ScanResponse(op, resp)

ParseNext == ParseScanDone

ParseSpec == ParseInit /\ [][ParseNext]_vars

(***************************************************************************)
(* findStudyResources on its own: one search is waiting for its response   *)
(* (a course was added and given a title, and the fourth user event was    *)
(* the press of its search button), and the response is drawn from chunk   *)
(* lists of up to MaxChunks chunks: at                                     *)
(* each place a chunk with a URI of its own, a repetition of the first     *)
(* URI, or a chunk the filter drops; and lists with one unparseable URI.   *)
(***************************************************************************)
ChunkSite(k) == [web |-> [uri |-> SiteUri(k), title |-> "Site " \o ToString(k)]]
\* a chunk without web, without title, or with an empty uri
ChunkDropped(k) ==
  CASE k % 3 = 0 -> [retrievedContext |-> [uri |-> SiteUri(k)]]
    [] k % 3 = 1 -> [web |-> [uri |-> SiteUri(k)]]
    [] OTHER     -> [web |-> [uri |-> "", title |-> "Untitled"]]

SearchChunkLists ==
  UNION {{[k \in 1..n |-> CASE pick[k] = "site" -> ChunkSite(k)
                            [] pick[k] = "same" -> ChunkSite(1)
                            [] OTHER            -> ChunkDropped(k)] :
            pick \in [1..n -> {"site", "same", "dropped"}]} :
         n \in 0..MaxChunks}
\* lists of well-formed chunks but one, whose URI does not parse
SearchBrokenLists ==
  UNION {{[k \in 1..n |-> IF k = bad THEN ChunkBad ELSE ChunkSite(k)] :
            bad \in 1..n} :
         n \in 1..MaxChunks}
SearchInputs ==
  {[kind |-> k, chunks |-> << >>] : k \in {"networkError", "noChunks"}}
  \cup {[kind |-> "chunks", chunks |-> c] : c \in SearchChunkLists \cup SearchBrokenLists}

\* the course searched for: its code typed or left empty
SearchCourse(code) ==
  [id |-> NewCourseId(1), code |-> code, title |-> "Algebra", credits |-> 3,
   grade |-> "A"]

SearchInit ==
  /\ mode = Standard4
  /\ \E code \in TypedCodes \cup {""} :
       /\ semesters = << [id |-> InitialSemId, name |-> "Semester 1",
                          courses |-> << SearchCourse(code) >>, gpa |-> 400] >>
       /\ activeResourceCourse = Some(SearchCourse(code))
       /\ ops = SetToBag({Op("search", "calling", NoMode, Some(SearchCourse(code)), 1)})
  /\ activeTab = "calc"
  /\ targetCGPA = 380
  /\ analysis = None
  /\ status = "searching"
  /\ errorMessage = Null
  /\ resourceModalOpen = TRUE
  /\ foundResources = << >>
  /\ apiKey = TRUE
  /\ now = 4

SearchInputDone ==
  \E op \in BagToSet(ops) : \E resp \in SearchInputs : SearchResponse(op, resp)

SearchNext == SearchInputDone

SearchSpec == SearchInit /\ [][SearchNext]_vars

(***************************************************************************)
(* Properties.                                                             *)
(***************************************************************************)
\* the places of the courses of the list: << semester, course >>
Places == UNION {{<< i, j >> : j \in DOMAIN semesters[i].courses} :
                 i \in DOMAIN semesters}
CourseAt(pl) == semesters[pl[1]].courses[pl[2]]

\* the sum of f over the set S
RECURSIVE SumOver(_, _)
SumOver(S, f) ==
  IF S = {} THEN 0
  ELSE LET x == CHOOSE y \in S : TRUE IN f[x] + SumOver(S \ {x}, f)

\* r (hundredths) is p10 / (10 * credits) rounded to two decimals: no
\* two-decimal number is nearer to the quotient
IsRounded(r, p10, credits) == 2 * Abs(10 * p10 - r * credits) <= Abs(credits)

\* C1: the overall CGPA is the sum of getPoint(grade, mode) * credits over
\* all courses of all semesters divided by the sum of all credits, rounded
\* to two decimals, and 0 when the credits sum to 0.
C1_CgpaIsWeightedMean ==
  LET points  == SumOver(Places, [pl \in Places |->
                   getPoint(CourseAt(pl).grade, mode) * CourseAt(pl).credits])
      credits == SumOver(Places, [pl \in Places |-> CourseAt(pl).credits])
  IN  IF credits = 0 THEN cgpa = 0 ELSE IsRounded(cgpa, points, credits)

\* C1 witness: after the switch to the 5.0 scale, two semesters whose
\* total of points over total of credits is not a whole number of hundredths
C1_Witness ==
  /\ mode = Standard5
  /\ Len(semesters) = 2
  /\ TotalCredits(semesters) = 3
  /\ (10 * TotalPoints(semesters, mode)) % 3 # 0
  /\ cgpa > 0

\* the semester GPA of a course list under mode m, stated from the sums
IsSemesterGpa(g, courses, m) ==
  LET idx     == DOMAIN courses
      points  == SumOver(idx, [j \in idx |-> getPoint(courses[j].grade, m) * courses[j].credits])
      credits == SumOver(idx, [j \in idx |-> courses[j].credits])
  IN  IF Len(courses) = 0 \/ credits = 0 THEN g = 0
      ELSE IsRounded(g, points, credits)

\* C2: calculateSemesterGPA returns 0 for an empty list and for credits that
\* sum to 0, otherwise the credit-weighted mean of the grade points under
\* the current mode rounded to two decimals; with exactly one semester it
\* agrees with the overall CGPA.
C2_SemesterGpaIsRestrictedCgpa ==
  /\ \A i \in DOMAIN semesters :
       IsSemesterGpa(calculateSemesterGPA(semesters[i].courses, mode),
                     semesters[i].courses, mode)
  /\ Len(semesters) = 1 => calculateSemesterGPA(semesters[1].courses, mode) = cgpa

\* C2 witness: one semester of two courses with different credits and
\* different points, after the switch to the 5.0 scale
C2_Witness ==
  /\ Len(semesters) = 1
  /\ Len(semesters[1].courses) = 2
  /\ semesters[1].courses[1].credits = 3
  /\ semesters[1].courses[2].credits = 1
  /\ semesters[1].courses[1].grade = "A"
  /\ semesters[1].courses[2].grade = "B"
  /\ mode = Standard5
  /\ semesters[1].gpa = 375
  /\ cgpa = 475

\* the table the mode selects, as the set of its << grade, point >> entries
TableOf(m) ==
  IF m = Standard5
  THEN {<< SCALE_5_0[k].grade, SCALE_5_0[k].point >> : k \in DOMAIN SCALE_5_0}
  ELSE {<< SCALE_4_0[k].grade, SCALE_4_0[k].point >> : k \in DOMAIN SCALE_4_0}

\* C3: for every grade and every mode getPoint returns the point of the
\* matching entry of the table the mode selects, and 0 for a grade that
\* table does not contain, also when the other table contains it.
C3_GetPointLooksUpSelectedTable ==
  \A pl \in Places : \A m \in CalculationMode :
    LET g == CourseAt(pl).grade
    IN  /\ \A e \in TableOf(m) : e[1] = g => getPoint(g, m) = e[2]
        /\ (\A e \in TableOf(m) : e[1] # g) => getPoint(g, m) = 0
        /\ g \in {"A-", "B+"} => getPoint(g, Standard5) = 0
        /\ g = "E" => getPoint(g, Standard4) = 0 /\ getPoint(g, Standard5) = 10
        /\ g = "A" => getPoint(g, Standard4) = 40 /\ getPoint(g, Standard5) = 50

\* C3 witness: grades of one table only, and one of neither, looked up
\* under the 5.0 scale
C3_Witness ==
  /\ mode = Standard5
  /\ \E pl \in Places : CourseAt(pl).grade = "A-"
  /\ \E pl \in Places : CourseAt(pl).grade = "E"
  /\ semesters[1].gpa = 0
  /\ cgpa = 100

\* C4: switching the scale mode leaves the semester list as it is: the
\* number and order of the semesters, every course's id, code, title,
\* credits and grade, and so the total of the credits.
C4_ModeSwitchKeepsSemesters ==
  [][mode' # mode =>
       /\ Len(semesters') = Len(semesters)
       /\ \A i \in DOMAIN semesters :
            /\ semesters'[i].id = semesters[i].id
            /\ semesters'[i].courses = semesters[i].courses
       /\ TotalCredits(semesters') = TotalCredits(semesters)
       /\ SumOver(Places, [pl \in Places |-> CourseAt(pl).credits])
            = TotalCredits(semesters')]_vars

\* C4 witness: a course graded B+, which only the 4.0 dropdown offers,
\* seen under the 5.0 scale, where its points are 0
C4_Witness ==
  /\ mode = Standard5
  /\ \E pl \in Places :
       /\ CourseAt(pl).id[1] = "new"
       /\ CourseAt(pl).grade = "B+"
       /\ CourseAt(pl).credits = 3
  /\ TotalCredits(semesters) = 3
  /\ cgpa = 0

\* C5: whenever the courses of a semester change, its stored gpa is
\* calculateSemesterGPA of the new course list under the mode current at
\* that update.
C5_GpaRecomputedOnUpdate ==
  [][\A i \in DOMAIN semesters : \A k \in DOMAIN semesters' :
       (semesters'[k].id = semesters[i].id
          /\ semesters'[k].courses # semesters[i].courses)
       => /\ semesters'[k].gpa = calculateSemesterGPA(semesters'[k].courses, mode)
          /\ IsSemesterGpa(semesters'[k].gpa, semesters'[k].courses, mode)]_vars

\* C5 witness: a semester after two adds, a credits edit and a grade edit,
\* whose gpa is that of the edited list: (0.0 * 1 + 4.0 * 3) / 4
C5_Witness ==
  \E i \in DOMAIN semesters :
    /\ Len(semesters[i].courses) = 2
    /\ semesters[i].courses[1].credits = 1
    /\ semesters[i].courses[1].grade = "F"
    /\ semesters[i].courses[2].credits = 3
    /\ semesters[i].courses[2].grade = "A"
    /\ mode = Standard4
    /\ semesters[i].gpa = 300

\* C6 (as claimed): in every reachable state every course has credits >= 0.
C6_CreditsNonNegative ==
  \A pl \in Places : CourseAt(pl).credits >= 0

\* remote calls issued on behalf of the handlers in flight
IssuedCalls ==
  SumOver(BagToSet(ops), [op \in BagToSet(ops) |-> op.calls * CopiesIn(op, ops)])

\* C7: without an API key each of the three remote operations is caught at
\* its call site: the handler ends with status 'error' and an error
\* message, makes no remote call and leaves the semester list as it is.
C7_MissingKeyIsCaught ==
  /\ [](~apiKey => IssuedCalls = 0)
  /\ [][(~apiKey /\ (GenerateStrategy \/ FindResources \/ LoadEnd))
         => /\ status' = "error"
            /\ errorMessage' \in {MsgImage, MsgStrategy, MsgResources}
            /\ semesters' = semesters
            /\ IssuedCalls' = 0]_vars

\* C7 witness: without a key, the strategy handler has ended in its catch
\* block
C7_Witness ==
  /\ ~apiKey
  /\ status = "error"
  /\ errorMessage = MsgStrategy
  /\ analysis = None
  /\ activeTab = "strategy"

FailedScan     == {r \in ScanResponses : r.kind \in {"networkError", "badJson", "notArray"}}
FailedStrategy == {r \in StrategyResponses : r.kind \in {"networkError", "emptyText", "badJson"}}
FailedSearch   == {r \in SearchResponses : r.kind = "networkError"}
                  \cup {r \in SearchResponses :
                          \E k \in DOMAIN r.chunks : ~UrlParses(r.chunks[k].web.uri)}

\* C8 (as claimed): for each of the three remote operations a failed call
\* or a malformed response ends the handler with status 'error' and an
\* error message.
C8_FailureSetsError ==
  [][\A op \in BagToSet(ops) :
       (\/ \E r \in FailedScan : ScanResponse(op, r)
        \/ \E r \in FailedStrategy : StrategyResponse(op, r)
        \/ \E r \in FailedSearch : SearchResponse(op, r))
       => status' = "error" /\ errorMessage' # Null]_vars

\* C8 (amended): a failed call or a malformed response ends the transcript
\* handler with status 'error' and its error message; the strategy and the
\* search services absorb the failure, and their handlers end with status
\* 'complete', the fallback analysis or the empty resource list, and the
\* error message as it was.
C8_FailureSurfaced ==
  [][\A op \in BagToSet(ops) :
       /\ (\E r \in FailedScan : ScanResponse(op, r))
            => status' = "error" /\ errorMessage' = MsgImage
       /\ (\E r \in FailedStrategy : StrategyResponse(op, r))
            => /\ status' = "complete"
               /\ analysis' = Some(FallbackAnalysis)
               /\ errorMessage' = errorMessage
       /\ (\E r \in FailedSearch : SearchResponse(op, r))
            => /\ status' = "complete"
               /\ foundResources' = << >>
               /\ errorMessage' = errorMessage]_vars

\* C8 witness: a strategy call has failed and the handler has ended with
\* the fallback analysis and no error message
C8_Witness ==
  /\ analysis = Some(FallbackAnalysis)
  /\ status = "complete"
  /\ errorMessage = Null
  /\ ops = EmptyBag

\* C9: no retry.  A handler issues at most one remote call, and the calls
\* issued grow only by one, in the step of a user action (or of the file
\* read a user action started): never in the step that ends a call.
C9_NoRetry ==
  /\ [](\A op \in BagToSet(ops) : op.calls <= 1)
  /\ [][IssuedCalls' > IssuedCalls
         => /\ IssuedCalls' = IssuedCalls + 1
            /\ GenerateStrategy \/ FindResources \/ LoadEnd]_vars
  /\ [][(ScanDone \/ StrategyDone \/ SearchDone)
         => IssuedCalls' = IssuedCalls - 1]_vars

\* C9 witness: a strategy call has failed, its handler has ended, and no
\* call is in flight
C9_Witness ==
  /\ apiKey
  /\ analysis = Some(FallbackAnalysis)
  /\ IssuedCalls = 0
  /\ ops = EmptyBag
  /\ status = "complete"
  /\ now < MaxNow

\* C10 (as claimed): an import that parses at least one course appends one
\* semester named 'Imported Transcript' whose courses are the parsed
\* courses in order and whose gpa is their semester GPA, leaves the
\* semesters before it as they are, and sets status 'complete'.
C10_ImportAppendsSemester ==
  [][\A op \in BagToSet(ops) : \A r \in ScanResponses :
       (ScanResponse(op, r) /\ r.kind = "array" /\ Len(r.items) > 0)
       => /\ Len(semesters') = Len(semesters) + 1
          /\ SubSeq(semesters', 1, Len(semesters)) = semesters
          /\ semesters'[Len(semesters')].name = "Imported Transcript"
          /\ semesters'[Len(semesters')].courses = parseTranscriptImage(r, now').courses
          /\ Len(semesters'[Len(semesters')].courses) = Len(r.items)
          /\ semesters'[Len(semesters')].gpa
               = calculateSemesterGPA(semesters'[Len(semesters')].courses, mode')
          /\ status' = "complete"]_vars

\* C11: a transcript import that fails (the file read fails, the key is
\* missing, the call rejects, the response is no JSON array) or that yields
\* no course leaves the semester list as it is, sets status 'error' and
\* sets an error message: the 'Could not detect any courses' message when
\* the parsed list is empty.
C11_FailedImportKeepsSemesters ==
  [][\A op \in BagToSet(ops) :
       /\ (\E r \in ScanResponses :
             ScanResponse(op, r) /\ parseTranscriptImage(r, now + 1).threw)
            => /\ semesters' = semesters
               /\ status' = "error"
               /\ errorMessage' = MsgImage
       /\ (\E r \in ScanResponses :
             /\ ScanResponse(op, r)
             /\ ~parseTranscriptImage(r, now + 1).threw
             /\ parseTranscriptImage(r, now + 1).courses = << >>)
            => /\ semesters' = semesters
               /\ status' = "error"
               /\ errorMessage' = MsgNoCourses
       /\ (\E readOk \in BOOLEAN :
             ReaderLoadEnd(op, readOk) /\ (~readOk \/ ~apiKey))
            => /\ semesters' = semesters
               /\ status' = "error"
               /\ errorMessage' = MsgImage]_vars

\* C11 witness: a scan has resolved to the empty list after a course was
\* added: the list is as the user left it and the message is shown
C11_Witness ==
  /\ apiKey
  /\ ops = EmptyBag
  /\ status = "error"
  /\ errorMessage = MsgNoCourses
  /\ Len(semesters) = 1
  /\ Len(semesters[1].courses) = 1

\* the property prop of the raw object c is absent or falsy
Absent(c, prop, falsy) == prop \notin DOMAIN c \/ c[prop] = falsy

\* the course out is the raw object c mapped: defaults for what is absent
\* or empty, every other value as it is
IsMapped(out, c) ==
  /\ out.code    = (IF Absent(c, "code", "")    THEN "UNKNOWN"       ELSE c.code)
  /\ out.title   = (IF Absent(c, "title", "")   THEN "Parsed Course" ELSE c.title)
  /\ out.credits = (IF Absent(c, "credits", 0)  THEN 3               ELSE c.credits)
  /\ out.grade   = (IF Absent(c, "grade", "")   THEN "C"             ELSE c.grade)

\* C12: parseTranscriptImage maps the JSON array one-to-one and in order
\* to courses: the result is as long as the array, its ids are pairwise
\* distinct, a missing or empty code becomes 'UNKNOWN', a missing or empty
\* title 'Parsed Course', missing or 0 credits 3, a missing or empty grade
\* 'C', every other value is kept; an empty response text gives the empty
\* list.  The courses a scan appends are that result.
C12_ParseMapsArray ==
  /\ [](\A r \in ParseResponses :
          LET out == parseTranscriptImage(r, now + 1)
          IN  /\ r.kind = "array"
                   => /\ ~out.threw
                      /\ Len(out.courses) = Len(r.items)
                      /\ \A j, k \in DOMAIN out.courses :
                            j # k => out.courses[j].id # out.courses[k].id
                      /\ \A k \in DOMAIN r.items :
                            IsMapped(out.courses[k], r.items[k])
              /\ r.kind = "emptyText" => ~out.threw /\ out.courses = << >>)
  /\ [][\A op \in BagToSet(ops) : \A r \in ParseResponses :
          (ScanResponse(op, r) /\ r.kind = "array" /\ Len(r.items) > 0)
          => /\ Len(semesters') = Len(semesters) + 1
             /\ semesters'[Len(semesters')].courses
                  = parseTranscriptImage(r, now').courses
             /\ \A k \in DOMAIN r.items :
                  IsMapped(semesters'[Len(semesters')].courses[k], r.items[k])]_vars

\* C12 witness: an import of two elements, the first with every default,
\* the second kept as it was, negative credits included
C12_Witness ==
  /\ Len(semesters) = 2
  /\ status = "complete"
  /\ ops = EmptyBag
  /\ LET courses == semesters[2].courses
     IN  /\ Len(courses) = 2
         /\ courses[1].code = "UNKNOWN" /\ courses[1].title = "Parsed Course"
         /\ courses[1].credits = 3 /\ courses[1].grade = "C"
         /\ courses[2].code = "BIO2" /\ courses[2].title = "Cells"
         /\ courses[2].credits = -2 /\ courses[2].grade = "B-"
         /\ courses[1].id = ParsedCourseId(now, 0)
         /\ courses[2].id = ParsedCourseId(now, 1)

\* the chunk has a web uri and a web title
HasUriAndTitle(chunk) ==
  /\ "web" \in DOMAIN chunk
  /\ "uri" \in DOMAIN chunk.web /\ chunk.web.uri # ""
  /\ "title" \in DOMAIN chunk.web /\ chunk.web.title # ""

\* the places of the chunks with uri and title whose uri no earlier such
\* chunk has
FirstOccurrences(chunks) ==
  {k \in DOMAIN chunks :
     /\ HasUriAndTitle(chunks[k])
     /\ \A j \in 1..(k - 1) :
          HasUriAndTitle(chunks[j]) => chunks[j].web.uri # chunks[k].web.uri}

\* res is the first 5, in chunk order, of the first occurrences
IsFirstFive(res, chunks) ==
  LET F == FirstOccurrences(chunks)
      rank(k) == Cardinality({j \in F : j <= k})
  IN  /\ Len(res) = (IF Cardinality(F) < 5 THEN Cardinality(F) ELSE 5)
      /\ \A k \in F : rank(k) <= 5
            => /\ res[rank(k)].uri = chunks[k].web.uri
               /\ res[rank(k)].title = chunks[k].web.title

AtMostFiveDistinct(res) ==
  /\ Len(res) <= 5
  /\ \A j, k \in DOMAIN res : j # k => res[j].uri # res[k].uri

\* C13 (as claimed): findStudyResources returns at most 5 resources with
\* pairwise distinct URIs: the first 5, in chunk order, of the chunks that
\* have a web uri and a web title, after keeping the first occurrence of
\* each URI; without grounding chunks the result is the empty list.
C13_FirstFiveDistinct ==
  /\ AtMostFiveDistinct(foundResources)
  /\ \A op \in InFlight("search", "calling") : \A r \in SearchInputs :
       LET res == findStudyResources(r)
       IN  /\ AtMostFiveDistinct(res)
           /\ r.kind = "chunks" => IsFirstFive(res, r.chunks)
           /\ r.kind = "noChunks" => res = << >>

\* C13 (amended): as claimed when the uri of every chunk with uri and
\* title parses as a URL; when one of them does not, the result is the
\* empty list.
C13_FirstFiveDistinctOfParsed ==
  /\ AtMostFiveDistinct(foundResources)
  /\ \A op \in InFlight("search", "calling") : \A r \in SearchInputs :
       LET res == findStudyResources(r)
           parsed == \A k \in DOMAIN r.chunks :
                       HasUriAndTitle(r.chunks[k]) => UrlParses(r.chunks[k].web.uri)
       IN  /\ AtMostFiveDistinct(res)
           /\ (r.kind = "chunks" /\ parsed) => IsFirstFive(res, r.chunks)
           /\ (r.kind = "chunks" /\ ~parsed) => res = << >>
           /\ r.kind = "noChunks" => res = << >>

\* C13 witness: a search has ended with 5 resources, from a response in
\* which the second URI was repeated, dropped or absent
C13_Witness ==
  /\ status = "complete"
  /\ ops = EmptyBag
  /\ Len(foundResources) = 5
  /\ foundResources[1].uri = SiteUri(1)
  /\ foundResources[2].uri = SiteUri(3)
  /\ foundResources[5].uri = SiteUri(6)
  /\ foundResources[5].source = SiteHost(6)

\* C14: with the API key present findStudyResources and
\* generateAcademicStrategy never reject: a failed call, an empty response
\* text, unparseable JSON or an unparseable URI make them resolve to the
\* empty list and to the fixed fallback result, and the handler ends with
\* status 'complete', its catch block not run.
C14_ServicesNeverReject ==
  /\ [](\A r \in FailedStrategy :
          /\ generateAcademicStrategy(r).projectedGPA = "N/A"
          /\ generateAcademicStrategy(r).sentiment = "neutral"
          /\ generateAcademicStrategy(r).strategicPlan = << >>)
  /\ [](\A r \in FailedSearch : findStudyResources(r) = << >>)
  /\ [][(apiKey /\ (StrategyDone \/ SearchDone))
         => /\ status' = "complete"
            /\ errorMessage' = errorMessage]_vars
  /\ [][\A op \in BagToSet(ops) :
          /\ (\E r \in FailedStrategy : StrategyResponse(op, r))
               => analysis' = Some(FallbackAnalysis)
          /\ (\E r \in FailedSearch : SearchResponse(op, r))
               => foundResources' = << >>]_vars

\* C14 witness: a search has ended with the empty list, the modal open,
\* status 'complete' and no error message
C14_Witness ==
  /\ apiKey
  /\ resourceModalOpen
  /\ activeResourceCourse # None
  /\ foundResources = << >>
  /\ status = "complete"
  /\ errorMessage = Null
  /\ ops = EmptyBag

Busy    == {"scanning", "thinking", "searching"}
Settled == {"idle", "complete", "error"}

\* C15: every started operation ends in a state update.  Whenever no
\* operation is in flight the status is 'idle', 'complete' or 'error',
\* under any interleaving of the three operations and the user's edits;
\* and, every FileReader firing and every remote call resolving or
\* rejecting, a status of 'scanning', 'thinking' or 'searching' leads to
\* one of these.
C15_StatusNeverStuck ==
  /\ [](ops = EmptyBag => status \in Settled)
  /\ (status \in Busy) ~> (ops = EmptyBag /\ status \in Settled)

\* C15 witness: a scan and a strategy generation were in flight together
\* and both have ended, the scan last and without courses
C15_Witness ==
  /\ ops = EmptyBag
  /\ analysis # None
  /\ status = "error"
  /\ errorMessage = MsgNoCourses
  /\ activeTab = "strategy"

\* every semester but the i-th is as it was, and so are the number and the
\* order of the semesters and the i-th semester's id and name
OnlySemesterChanged(i) ==
  /\ Len(semesters') = Len(semesters)
  /\ \A k \in DOMAIN semesters : k # i => semesters'[k] = semesters[k]
  /\ semesters'[i].id = semesters[i].id
  /\ semesters'[i].name = semesters[i].name

CourseFields == {"id", "code", "title", "credits", "grade"}

\* only the named field of the course with the given id has changed
OnlyFieldChanged(i, id, field, value) ==
  /\ OnlySemesterChanged(i)
  /\ Len(semesters'[i].courses) = Len(semesters[i].courses)
  /\ \A j \in DOMAIN semesters[i].courses :
       LET old == semesters[i].courses[j]
           new == semesters'[i].courses[j]
       IN  IF old.id = id
           THEN /\ new[field] = value
                /\ \A f \in CourseFields \ {field} : new[f] = old[f]
           ELSE new = old

\* C16: an edit of the courses of one semester changes only that semester:
\* the other semesters, the order of the semesters and the relative order
\* of its remaining courses are as they were; a field change alters only
\* the named field of the course with the given id; an added course is
\* appended at the end with credits 3 and the first grade of the active
\* scale.
C16_EditChangesOneSemester ==
  [][\A i \in DOMAIN semesters :
       /\ handleAddCourse(i)
            => /\ OnlySemesterChanged(i)
               /\ Len(semesters'[i].courses) = Len(semesters[i].courses) + 1
               /\ SubSeq(semesters'[i].courses, 1, Len(semesters[i].courses))
                    = semesters[i].courses
               /\ LET added == semesters'[i].courses[Len(semesters'[i].courses)]
                  IN  /\ added.credits = 3
                      /\ added.grade = (IF mode = Standard5 THEN SCALE_5_0[1].grade
                                        ELSE SCALE_4_0[1].grade)
                      /\ added.code = "" /\ added.title = ""
       /\ \A id \in CourseIds(i) :
            /\ handleRemove(i, id)
                 => /\ OnlySemesterChanged(i)
                    /\ semesters'[i].courses
                         = SelectSeq(semesters[i].courses, LAMBDA c : c.id # id)
            /\ \A v \in TypedCodes :
                 handleChange(i, id, "code", v) => OnlyFieldChanged(i, id, "code", v)
            /\ \A v \in TypedTitles :
                 handleChange(i, id, "title", v) => OnlyFieldChanged(i, id, "title", v)
            /\ \A v \in {ParseCredits(t) : t \in TypedCredits} :
                 handleChange(i, id, "credits", v) => OnlyFieldChanged(i, id, "credits", v)
            /\ \A v \in OfferedGrades \cap GradeChoices :
                 handleChange(i, id, "grade", v) => OnlyFieldChanged(i, id, "grade", v)]_vars

\* C16 witness: two semesters of one course each; the credits of the
\* first semester's course were edited, the second semester's course is
\* as it was added
C16_Witness ==
  /\ Len(semesters) = 2
  /\ Len(semesters[1].courses) = 1 /\ Len(semesters[2].courses) = 1
  /\ semesters[1].courses[1].code = ""
  /\ semesters[1].courses[1].credits = 1
  /\ semesters[1].courses[1].title = ""
  /\ semesters[2].courses[1].code = ""
  /\ semesters[2].courses[1].credits = 3
  /\ semesters[2].gpa = 400

\* C17 (as claimed): in every reachable state every semester's cached gpa
\* is the semester GPA of its courses under the mode now selected.
C17_CachedGpaIsCurrent ==
  \A i \in DOMAIN semesters :
    IsSemesterGpa(semesters[i].gpa, semesters[i].courses, mode)

\* handler invocations of one kind in flight
InFlightCount(kind) ==
  LET S == {op \in BagToSet(ops) : op.kind = kind}
  IN  SumOver(S, [op \in S |-> CopiesIn(op, ops)])

\* C18 (as claimed): at most one transcript scan and at most one strategy
\* generation are in flight at any time.
C18_OneScanOneStrategy ==
  /\ InFlightCount("scan") <= 1
  /\ InFlightCount("strategy") <= 1

\* C19 (as claimed): whenever the modal is open and shows a result list
\* (status not 'searching'), the resources shown are the result of the
\* search started for the course in activeResourceCourse: a search that
\* ends and whose result is shown was started for that course.
C19_ShownResourcesAreOfActiveCourse ==
  [][\A op \in BagToSet(ops) :
       (/\ \E r \in SearchResponses : SearchResponse(op, r)
        /\ resourceModalOpen'
        /\ status' # "searching")
       => op.course = activeResourceCourse']_vars

\* the grades of the scale of mode m
ScaleGrades(m) ==
  IF m = Standard5 THEN {SCALE_5_0[k].grade : k \in DOMAIN SCALE_5_0}
  ELSE {SCALE_4_0[k].grade : k \in DOMAIN SCALE_4_0}

\* C20 (as claimed): in every reachable state the grade of every course is
\* a grade of the active scale, the one the grade dropdown offers for the
\* mode now selected.
C20_GradeInActiveScale ==
  \A pl \in Places : CourseAt(pl).grade \in ScaleGrades(mode)

\* C21 (as claimed): in every reachable state the target CGPA lies within
\* the bounds of the target slider: the current CGPA is at most targetCGPA
\* and targetCGPA is at most the maximum of the current scale.
C21_TargetWithinSlider ==
  /\ cgpa <= targetCGPA
  /\ targetCGPA <= ScaleMax

\* C22 (as claimed): in every reachable state the overall CGPA is between
\* 0 and the maximum of the current scale, so that the progress gauge is
\* between 0% and 100%.
C22_CgpaWithinScale ==
  /\ 0 <= cgpa
  /\ cgpa <= ScaleMax

====
